---- MODULE Spec2Model ----
(***************************************************************************)
(* Model of the post-it-app backend: the User, Post and Comment handlers   *)
(* over the Prisma store (soft delete, ownership checks, unique email and  *)
(* username), and the avatar helpers.                                      *)
(*                                                                         *)
(* A handler is a function from the store, the request, the time of the    *)
(* request and the random draws to the table it writes and the HTTP answer.*)
(* Spec runs whole handlers one request at a time; SpecConc runs the user  *)
(* handlers one store round trip at a time, for several clients at once.   *)
(***************************************************************************)
EXTENDS Integers, Sequences, FiniteSets, Bags, TLC

VARIABLES users, posts, comments, now, response, inflight

vars == <<users, posts, comments, now, response, inflight>>

(***************************************************************************)
(* Bounds of the model.                                                    *)
(***************************************************************************)
MaxUsers == 2
MaxPosts == 1
MaxComments == 1
MaxRows == 3
MaxClock == 2
MaxClients == 2
NumStylesDrawn == 1

(***************************************************************************)
(* Inputs of the requests.  "" is a missing (or empty) body field or query *)
(* parameter, 0 a missing userId.                                          *)
(***************************************************************************)
Emails == {"", "a@x.io", "b@x.io", "ab.io"}
Usernames == {"", "ann", "bob"}
Contents == {"", "hi", "yo"}
Flags == {"", "true", "false"}
EntropyTokens == {"k3x9a"}

\* deletedAt DateTime? : the null of the store.
NULL == 0

(***************************************************************************)
(* utils/avatar.ts                                                         *)
(***************************************************************************)
avatarStyles ==
  << "adventurer", "adventurer-neutral", "avataaars", "avataaars-neutral",
     "big-ears", "big-ears-neutral", "big-smile", "bottts", "bottts-neutral",
     "croodles", "croodles-neutral", "fun-emoji", "icons", "identicon",
     "initials", "lorelei", "lorelei-neutral", "micah", "miniavs",
     "open-peeps", "personas", "pixel-art", "pixel-art-neutral", "shapes",
     "thumbs" >>

\* The draws of Math.random() in getRandomAvatarStyle that the model follows.
RandomIndexes == 1..NumStylesDrawn

getRandomAvatarStyle(randomIndex) == avatarStyles[randomIndex]

CharAt(s, i) == SubSeq(s, i, i)

\* \s of the regular expression, for the characters the inputs are made of.
IsSpace(c) == c = " "

RECURSIVE trimStart(_)
trimStart(s) ==
  IF Len(s) > 0 /\ IsSpace(CharAt(s, 1))
  THEN trimStart(SubSeq(s, 2, Len(s)))
  ELSE s

RECURSIVE trimEnd(_)
trimEnd(s) ==
  IF Len(s) > 0 /\ IsSpace(CharAt(s, Len(s)))
  THEN trimEnd(SubSeq(s, 1, Len(s) - 1))
  ELSE s

\* String.prototype.trim
trim(s) == trimEnd(trimStart(s))

\* [^\s@]+ on s[from..to]
PlainRun(s, from, to) ==
  /\ from <= to
  /\ \A k \in from..to : ~IsSpace(CharAt(s, k)) /\ CharAt(s, k) # "@"

\* /^[^\s@]+@[^\s@]+\.[^\s@]+$/.test(s)
emailRegexTest(s) ==
  \E i \in 1..Len(s) : \E j \in 1..Len(s) :
    /\ i < j
    /\ CharAt(s, i) = "@"
    /\ CharAt(s, j) = "."
    /\ PlainRun(s, 1, i - 1)
    /\ PlainRun(s, i + 1, j - 1)
    /\ PlainRun(s, j + 1, Len(s))

\* s.replace("@", r): the first "@" only.
RECURSIVE replaceFirstAt(_, _)
replaceFirstAt(s, r) ==
  IF Len(s) = 0 THEN s
  ELSE IF CharAt(s, 1) = "@" THEN r \o SubSeq(s, 2, Len(s))
  ELSE CharAt(s, 1) \o replaceFirstAt(SubSeq(s, 2, Len(s)), r)

\* s.replace(/\./g, r): every ".".
RECURSIVE replaceAllDots(_, _)
replaceAllDots(s, r) ==
  IF Len(s) = 0 THEN s
  ELSE (IF CharAt(s, 1) = "." THEN r ELSE CharAt(s, 1))
         \o replaceAllDots(SubSeq(s, 2, Len(s)), r)

\* The random draws of one generateRandomAvatar call.
Draws == [index : RandomIndexes, at : EntropyTokens, dot : EntropyTokens]

\* generateRandomAvatar: ok = FALSE is the thrown Error.
generateRandomAvatar(email, rnd) ==
  LET _email == trim(email)
      replaceAt == "-" \o rnd.at \o "-"
      replaceDot == "-" \o rnd.dot \o "-"
      seed == replaceAllDots(replaceFirstAt(_email, replaceAt), replaceDot)
      randomAvatarStyle == getRandomAvatarStyle(rnd.index)
  IN  IF ~emailRegexTest(_email)
      THEN [ok |-> FALSE, error |-> "Invalid email", avatarUrl |-> ""]
      ELSE [ok |-> TRUE, error |-> "",
            avatarUrl |-> "https://api.dicebear.com/5.x/" \o randomAvatarStyle
                            \o "/svg?seed=" \o seed \o "&size=200&radius=50"]

generateAvatarTag(username, avatarUrl) ==
  "<img src=\"" \o avatarUrl \o "\" alt=\"Avatar for " \o username \o "\" />"

(***************************************************************************)
(* The store (the Prisma schema).  A table is the sequence of its rows in  *)
(* insertion order; a query for one row answers <<>> or <<row>>.  Of the   *)
(* three timestamps of a row the model keeps deletedAt, the one a handler  *)
(* reads; createdAt and updatedAt are written by the store and read by no  *)
(* handler.                                                                *)
(***************************************************************************)
Rows(table) == {table[i] : i \in 1..Len(table)}

\* @id @default(autoincrement())
NextId(table) == Len(table) + 1

First(rows) == IF rows = <<>> THEN <<>> ELSE <<rows[1]>>

\* findUnique({ where: { id } })
findUniqueById(table, id) ==
  LET Keep(r) == r.id = id IN First(SelectSeq(table, Keep))

\* findUniqueActiveById without deletedAt: null in its where.
findUniqueActiveByIdAny(table, id) == findUniqueById(table, id)

\* findUnique({ where: { id, deletedAt: null } })
findUniqueActiveById(table, id) ==
  LET Keep(r) == r.id = id /\ r.deletedAt = NULL IN First(SelectSeq(table, Keep))

\* userFindFirstActive that looks for the email only.
userFindFirstActiveEmail(U, email, username) ==
  LET Keep(r) == r.email = email /\ r.deletedAt = NULL
  IN  First(SelectSeq(U, Keep))

\* prisma.user.findFirst({ where: { OR: [{ email }, { username }], deletedAt: null } })
userFindFirstActive(U, email, username) ==
  LET Keep(r) == (r.email = email \/ r.username = username) /\ r.deletedAt = NULL
  IN  First(SelectSeq(U, Keep))

\* userFindUniqueByEmail among the active users only.
userFindUniqueByEmailActive(U, email) ==
  LET Keep(r) == r.email = email /\ r.deletedAt = NULL IN First(SelectSeq(U, Keep))

\* prisma.user.findUnique({ where: { email } })
userFindUniqueByEmail(U, email) ==
  LET Keep(r) == r.email = email IN First(SelectSeq(U, Keep))

\* email String @unique, username String @unique: would the row, written
\* in place of row id (0: a new row), break a unique index?
UniqueViolation(U, id, email, username) ==
  \E r \in Rows(U) : r.id # id /\ (r.email = email \/ r.username = username)

\* userCreate on a table without the unique indexes.
userCreateNoIndex(U, data) ==
  LET row == [id |-> NextId(U), email |-> data.email, username |-> data.username,
              avatarUrl |-> data.avatarUrl, avatarTag |-> data.avatarTag,
              deletedAt |-> NULL]
  IN  [ok |-> TRUE, table |-> Append(U, row), row |-> <<row>>]

\* prisma.user.create: ok = FALSE is the unique constraint error (P2002).
userCreate(U, data) ==
  LET row == [id |-> NextId(U), email |-> data.email, username |-> data.username,
              avatarUrl |-> data.avatarUrl, avatarTag |-> data.avatarTag,
              deletedAt |-> NULL]
  IN  IF UniqueViolation(U, 0, data.email, data.username)
      THEN [ok |-> FALSE, table |-> U, row |-> <<>>]
      ELSE [ok |-> TRUE, table |-> Append(U, row), row |-> <<row>>]

\* The table with row id replaced by row.
Replace(table, id, row) ==
  [i \in 1..Len(table) |-> IF table[i].id = id THEN row ELSE table[i]]

\* prisma.user.update({ where: { id }, data })
userUpdate(U, id, data) ==
  LET old == findUniqueById(U, id)[1]
      row == [old EXCEPT !.email = data.email, !.username = data.username,
                         !.avatarUrl = data.avatarUrl, !.avatarTag = data.avatarTag]
  IN  IF UniqueViolation(U, id, data.email, data.username)
      THEN [ok |-> FALSE, table |-> U, row |-> <<>>]
      ELSE [ok |-> TRUE, table |-> Replace(U, id, row), row |-> <<row>>]

\* softDelete as delete({ where: { id } }): the row leaves the table.
hardDelete(table, id, t) ==
  LET old == findUniqueById(table, id)[1]
      Keep(r) == r.id # id
  IN  [ok |-> TRUE, table |-> SelectSeq(table, Keep), row |-> <<old>>]

\* update({ where: { id }, data: { deletedAt: new Date() } })
softDelete(table, id, t) ==
  LET old == findUniqueById(table, id)[1]
      row == [old EXCEPT !.deletedAt = t]
  IN  [ok |-> TRUE, table |-> Replace(table, id, row), row |-> <<row>>]

\* listWhere that tests includeDeleted before onlyDeleted.
listWhereIncludeFirst(r, includeDeleted, onlyDeleted) ==
  IF includeDeleted = "true" THEN TRUE
  ELSE IF onlyDeleted = "true" THEN r.deletedAt # NULL
  ELSE r.deletedAt = NULL

\* let where = {}; if (onlyDeleted === "true") ... else if (includeDeleted !== "true") ...
listWhere(r, includeDeleted, onlyDeleted) ==
  IF onlyDeleted = "true" THEN r.deletedAt # NULL
  ELSE IF includeDeleted # "true" THEN r.deletedAt = NULL
  ELSE TRUE

\* findMany({ where })
findMany(table, includeDeleted, onlyDeleted) ==
  LET Keep(r) == listWhere(r, includeDeleted, onlyDeleted)
  IN  SelectSeq(table, Keep)

(***************************************************************************)
(* Requests and answers.                                                   *)
(***************************************************************************)
\* req.params, req.body and req.query of one request; the fields a route
\* does not read are left at "" or 0.
Request(op, id, postId, userId, email, username, content, includeDeleted, onlyDeleted) ==
  [op |-> op, id |-> id, postId |-> postId, userId |-> userId, email |-> email,
   username |-> username, content |-> content,
   includeDeleted |-> includeDeleted, onlyDeleted |-> onlyDeleted]

NoRequest == Request("none", 0, 0, 0, "", "", "", "", "")

\* res.status(status).json({ success, message | data }) and the table after
\* the handler; wrote says whether the handler wrote a row.
Outcome(table, wrote, status, message, data) ==
  [table |-> table, wrote |-> wrote, status |-> status, message |-> message,
   data |-> data]

\* next(error): the error reaches the default error handler of express.
Failed(table, message) == Outcome(table, FALSE, 500, message, <<>>)

IsDeleted(found) == found = <<>> \/ found[1].deletedAt # NULL

(***************************************************************************)
(* controllers/userController.ts                                           *)
(***************************************************************************)
\* if (!email || !username)
createUserInvalid(req) == req.email = "" \/ req.username = ""

\* createUser after the findFirst has answered existingUser.
createUserWrite(U, req, existingUser, rnd) ==
  IF existingUser # <<>>
  THEN Outcome(U, FALSE, 409, "Email or username already exists", <<>>)
  ELSE LET avatar == generateRandomAvatar(req.email, rnd)
           avatarTag == generateAvatarTag(req.username, avatar.avatarUrl)
           created == userCreate(U, [email |-> req.email, username |-> req.username,
                                     avatarUrl |-> avatar.avatarUrl,
                                     avatarTag |-> avatarTag])
       IN  IF ~avatar.ok THEN Failed(U, avatar.error)
           ELSE IF ~created.ok THEN Failed(U, "Unique constraint failed")
           ELSE Outcome(created.table, TRUE, 201, "", created.row)

createUser(U, req, rnd) ==
  IF createUserInvalid(req)
  THEN Outcome(U, FALSE, 400, "Email and username are required", <<>>)
  ELSE createUserWrite(U, req, userFindFirstActive(U, req.email, req.username), rnd)

getUsers(U, req) ==
  Outcome(U, FALSE, 200, "", findMany(U, req.includeDeleted, req.onlyDeleted))

\* getUser that tests !user only.
getUserDeletedToo(U, req) ==
  LET user == findUniqueById(U, req.id)
  IN  IF user = <<>> THEN Outcome(U, FALSE, 404, "User not found", <<>>)
      ELSE Outcome(U, FALSE, 200, "", user)

getUser(U, req) ==
  LET user == findUniqueById(U, req.id)
  IN  IF IsDeleted(user) THEN Outcome(U, FALSE, 404, "User not found", <<>>)
      ELSE Outcome(U, FALSE, 200, "", user)

\* if (email && email !== user.email)
emailChanges(req, user) == req.email # "" /\ req.email # user.email

\* OrElse that takes the value of the request as it comes.
OrElseValue(value, fallback) == value

\* value || fallback
OrElse(value, fallback) == IF value # "" THEN value ELSE fallback

\* updateUser after the reads have answered user (active) and, when the
\* email changes, existingUserWithEmail.
updateUserWrite(U, req, user, existingUserWithEmail, rnd) ==
  IF /\ emailChanges(req, user)
     /\ existingUserWithEmail # <<>>
     /\ existingUserWithEmail[1].id # user.id
  THEN Outcome(U, FALSE, 409, "Email already in use by another user", <<>>)
  ELSE LET avatar == generateRandomAvatar(req.email, rnd)
           avatarUrl == IF emailChanges(req, user) THEN avatar.avatarUrl
                        ELSE user.avatarUrl
           avatarTag == IF emailChanges(req, user)
                        THEN generateAvatarTag(OrElse(req.username, user.username),
                                               avatarUrl)
                        ELSE user.avatarTag
           updated == userUpdate(U, user.id,
                                 [email |-> OrElse(req.email, user.email),
                                  username |-> OrElse(req.username, user.username),
                                  avatarUrl |-> avatarUrl, avatarTag |-> avatarTag])
       IN  IF emailChanges(req, user) /\ ~avatar.ok THEN Failed(U, avatar.error)
           ELSE IF ~updated.ok THEN Failed(U, "Unique constraint failed")
           ELSE Outcome(updated.table, TRUE, 200, "", updated.row)

\* The second read of updateUser.
updateUserLookup(U, req, user) ==
  IF emailChanges(req, user) THEN userFindUniqueByEmail(U, req.email) ELSE <<>>

updateUser(U, req, rnd) ==
  LET user == findUniqueById(U, req.id)
  IN  IF IsDeleted(user) THEN Outcome(U, FALSE, 404, "User not found", <<>>)
      ELSE updateUserWrite(U, req, user[1], updateUserLookup(U, req, user[1]), rnd)

\* deleteUser after the findUnique has answered user.
deleteUserWrite(U, req, user, t) ==
  IF IsDeleted(user) THEN Outcome(U, FALSE, 404, "User not found", <<>>)
  ELSE LET deleted == softDelete(U, req.id, t)
       IN  Outcome(deleted.table, TRUE, 200, "", deleted.row)

deleteUser(U, req, t) == deleteUserWrite(U, req, findUniqueById(U, req.id), t)

(***************************************************************************)
(* The post controller (controllers/userController.ts, from line 409)      *)
(***************************************************************************)
\* prisma.post.create({ data: { content, userId } })
postCreate(P, data) ==
  LET row == [id |-> NextId(P), content |-> data.content, userId |-> data.userId,
              deletedAt |-> NULL]
  IN  [ok |-> TRUE, table |-> Append(P, row), row |-> <<row>>]

\* update({ where: { id }, data: { content } }), for posts and comments.
contentUpdate(table, id, content) ==
  LET old == findUniqueById(table, id)[1]
      row == [old EXCEPT !.content = content]
  IN  [ok |-> TRUE, table |-> Replace(table, id, row), row |-> <<row>>]

\* if (!content || !userId)
contentInvalid(req) == req.content = "" \/ req.userId = 0

\* createPost after the findUnique has answered user.
createPostWrite(P, req, user) ==
  IF user = <<>> THEN Outcome(P, FALSE, 404, "User not found", <<>>)
  ELSE LET created == postCreate(P, [content |-> req.content, userId |-> req.userId])
       IN  Outcome(created.table, TRUE, 201, "", created.row)

\* createPost that looks for the user among the soft-deleted ones too.
createPostAnyUser(P, U, req) ==
  IF contentInvalid(req)
  THEN Outcome(P, FALSE, 400, "Content and userId are required", <<>>)
  ELSE createPostWrite(P, req, findUniqueById(U, req.userId))

createPost(P, U, req) ==
  IF contentInvalid(req)
  THEN Outcome(P, FALSE, 400, "Content and userId are required", <<>>)
  ELSE createPostWrite(P, req, findUniqueActiveById(U, req.userId))

\* orderBy: { createdAt: "desc" }: createdAt is the time of the insert, so
\* the rows come latest insert first.
RECURSIVE orderByCreatedAtDesc(_)
orderByCreatedAtDesc(rows) ==
  IF rows = <<>> THEN <<>>
  ELSE <<rows[Len(rows)]>> \o orderByCreatedAtDesc(SubSeq(rows, 1, Len(rows) - 1))

getPosts(P, req) ==
  Outcome(P, FALSE, 200, "",
          orderByCreatedAtDesc(findMany(P, req.includeDeleted, req.onlyDeleted)))

getPost(P, req) ==
  LET post == findUniqueById(P, req.id)
  IN  IF IsDeleted(post) THEN Outcome(P, FALSE, 404, "Post not found", <<>>)
      ELSE Outcome(P, FALSE, 200, "", post)

\* updatePostWrite without the comparison of post.userId with userId.
updatePostWriteAnyUser(P, req, post) ==
  IF IsDeleted(post) THEN Outcome(P, FALSE, 404, "Post not found", <<>>)
  ELSE LET updated == contentUpdate(P, req.id, OrElse(req.content, post[1].content))
       IN  Outcome(updated.table, TRUE, 200, "", updated.row)

\* updatePostWrite whose update is update({ where: { id, deletedAt: null } }):
\* the store finds no record to update when the row is soft-deleted by then.
updatePostWriteWhereActive(P, req, post) ==
  IF IsDeleted(post) THEN Outcome(P, FALSE, 404, "Post not found", <<>>)
  ELSE IF post[1].userId # req.userId
  THEN Outcome(P, FALSE, 403, "You can only update your own posts", <<>>)
  ELSE IF IsDeleted(findUniqueById(P, req.id))
  THEN Failed(P, "Record to update not found")
  ELSE LET updated == contentUpdate(P, req.id, OrElse(req.content, post[1].content))
       IN  Outcome(updated.table, TRUE, 200, "", updated.row)

\* updatePost after the findUnique has answered post.
updatePostWrite(P, req, post) ==
  IF IsDeleted(post) THEN Outcome(P, FALSE, 404, "Post not found", <<>>)
  ELSE IF post[1].userId # req.userId
  THEN Outcome(P, FALSE, 403, "You can only update your own posts", <<>>)
  ELSE LET updated == contentUpdate(P, req.id, OrElse(req.content, post[1].content))
       IN  Outcome(updated.table, TRUE, 200, "", updated.row)

updatePost(P, req) == updatePostWrite(P, req, findUniqueById(P, req.id))

\* deletePostWrite that takes the post from its owner as it deletes it:
\* data: { deletedAt: new Date(), userId: 0 }.
deletePostWriteDisown(P, req, post, t) ==
  IF IsDeleted(post) THEN Outcome(P, FALSE, 404, "Post not found", <<>>)
  ELSE IF post[1].userId # req.userId
  THEN Outcome(P, FALSE, 403, "You can only delete your own posts", <<>>)
  ELSE LET row == [post[1] EXCEPT !.deletedAt = t, !.userId = 0]
       IN  Outcome(Replace(P, req.id, row), TRUE, 200, "", <<row>>)

\* deletePostWrite that tests !post only.
deletePostWriteAgain(P, req, post, t) ==
  IF post = <<>> THEN Outcome(P, FALSE, 404, "Post not found", <<>>)
  ELSE IF post[1].userId # req.userId
  THEN Outcome(P, FALSE, 403, "You can only delete your own posts", <<>>)
  ELSE LET deleted == softDelete(P, req.id, t)
       IN  Outcome(deleted.table, TRUE, 200, "", deleted.row)

\* deletePost after the findUnique has answered post.
deletePostWrite(P, req, post, t) ==
  IF IsDeleted(post) THEN Outcome(P, FALSE, 404, "Post not found", <<>>)
  ELSE IF post[1].userId # req.userId
  THEN Outcome(P, FALSE, 403, "You can only delete your own posts", <<>>)
  ELSE LET deleted == softDelete(P, req.id, t)
       IN  Outcome(deleted.table, TRUE, 200, "", deleted.row)

deletePost(P, req, t) == deletePostWrite(P, req, findUniqueById(P, req.id), t)

(***************************************************************************)
(* The comment controller (utils/avatar.ts, from line 62)                  *)
(***************************************************************************)
\* prisma.comment.create({ data: { content, userId, postId } })
commentCreate(C, data) ==
  LET row == [id |-> NextId(C), content |-> data.content, userId |-> data.userId,
              postId |-> data.postId, deletedAt |-> NULL]
  IN  [ok |-> TRUE, table |-> Append(C, row), row |-> <<row>>]

\* commentFindUnique by the id alone.
commentFindUniqueAnyPost(C, id, postId) ==
  LET Keep(r) == r.id = id IN First(SelectSeq(C, Keep))

\* prisma.comment.findUnique({ where: { id, postId } })
commentFindUnique(C, id, postId) ==
  LET Keep(r) == r.id = id /\ r.postId = postId IN First(SelectSeq(C, Keep))

\* createCommentWrite that tests the user before the post.
createCommentWriteUserFirst(C, req, post, user) ==
  IF user = <<>> THEN Outcome(C, FALSE, 404, "User not found", <<>>)
  ELSE IF post = <<>> THEN Outcome(C, FALSE, 404, "Post not found", <<>>)
  ELSE LET created == commentCreate(C, [content |-> req.content, userId |-> req.userId,
                                        postId |-> req.postId])
       IN  Outcome(created.table, TRUE, 201, "", created.row)

\* createComment after the two findUnique have answered post and user.
createCommentWrite(C, req, post, user) ==
  IF post = <<>> THEN Outcome(C, FALSE, 404, "Post not found", <<>>)
  ELSE IF user = <<>> THEN Outcome(C, FALSE, 404, "User not found", <<>>)
  ELSE LET created == commentCreate(C, [content |-> req.content, userId |-> req.userId,
                                        postId |-> req.postId])
       IN  Outcome(created.table, TRUE, 201, "", created.row)

createComment(C, P, U, req) ==
  IF contentInvalid(req)
  THEN Outcome(C, FALSE, 400, "Content and userId are required", <<>>)
  ELSE createCommentWrite(C, req, findUniqueActiveById(P, req.postId),
                          findUniqueActiveById(U, req.userId))

\* let where = { postId }; ... findMany({ where })
getComments(C, req) ==
  LET Keep(r) == r.postId = req.postId
  IN  Outcome(C, FALSE, 200, "",
              findMany(SelectSeq(C, Keep), req.includeDeleted, req.onlyDeleted))

\* include: { user: { select: { id: true, username: true, avatarUrl: true } } }
includeUser(comment, U) ==
  LET user == findUniqueById(U, comment.userId)[1]
  IN  [id |-> comment.id, content |-> comment.content, userId |-> comment.userId,
       postId |-> comment.postId, deletedAt |-> comment.deletedAt,
       user |-> [id |-> user.id, username |-> user.username,
                 avatarUrl |-> user.avatarUrl]]

getComment(C, U, req) ==
  LET comment == commentFindUnique(C, req.id, req.postId)
  IN  IF IsDeleted(comment) THEN Outcome(C, FALSE, 404, "Comment not found", <<>>)
      ELSE Outcome(C, FALSE, 200, "", <<includeUser(comment[1], U)>>)

\* updateComment after the findUnique has answered comment.
updateCommentWrite(C, req, comment) ==
  IF IsDeleted(comment) THEN Outcome(C, FALSE, 404, "Comment not found", <<>>)
  ELSE IF comment[1].userId # req.userId
  THEN Outcome(C, FALSE, 403, "You can only update your own comments", <<>>)
  ELSE LET updated == contentUpdate(C, req.id, OrElse(req.content, comment[1].content))
       IN  Outcome(updated.table, TRUE, 200, "", updated.row)

updateComment(C, req) ==
  updateCommentWrite(C, req, commentFindUnique(C, req.id, req.postId))

\* deleteComment after the findUnique has answered comment.
deleteCommentWrite(C, req, comment, t) ==
  IF IsDeleted(comment) THEN Outcome(C, FALSE, 404, "Comment not found", <<>>)
  ELSE IF comment[1].userId # req.userId
  THEN Outcome(C, FALSE, 403, "You can only delete your own comments", <<>>)
  ELSE LET deleted == softDelete(C, req.id, t)
       IN  Outcome(deleted.table, TRUE, 200, "", deleted.row)

deleteComment(C, req, t) ==
  deleteCommentWrite(C, req, commentFindUnique(C, req.id, req.postId), t)

(***************************************************************************)
(* The requests, one whole handler at a time.                              *)
(***************************************************************************)
UserIds == 0..MaxUsers
PostIds == 1..(MaxPosts + 1)
CommentIds == 1..MaxComments

\* A request between two store round trips: the await it waits at, and what
\* its reads have answered so far.
Slot(pc, req, found, existing) ==
  [pc |-> pc, req |-> req, found |-> found, existing |-> existing]

Answer(req, out) ==
  [req |-> req, status |-> out.status, message |-> out.message, data |-> out.data]

\* No request is being answered.
NoResponse == [req |-> NoRequest, status |-> 0, message |-> "", data |-> <<>>]

Idle == response = NoResponse

\* The store has room for the rows of the answer.
Room(U, P, C) ==
  /\ Len(U) <= MaxUsers
  /\ Len(P) <= MaxPosts
  /\ Len(C) <= MaxComments
  /\ Len(U) + Len(P) + Len(C) <= MaxRows

OnUsers(req, out) ==
  /\ Idle
  /\ Room(out.table, posts, comments)
  /\ users' = out.table
  /\ response' = Answer(req, out)
  /\ UNCHANGED <<posts, comments, now, inflight>>

OnPosts(req, out) ==
  /\ Idle
  /\ Room(users, out.table, comments)
  /\ posts' = out.table
  /\ response' = Answer(req, out)
  /\ UNCHANGED <<users, comments, now, inflight>>

OnComments(req, out) ==
  /\ Idle
  /\ Room(users, posts, out.table)
  /\ comments' = out.table
  /\ response' = Answer(req, out)
  /\ UNCHANGED <<users, posts, now, inflight>>

\* The answer has been sent: the handler has returned.
Deliver ==
  /\ ~Idle
  /\ response' = NoResponse
  /\ UNCHANGED <<users, posts, comments, now, inflight>>

\* Time passes between two requests: new Date() and now() read the clock.
Tick ==
  /\ Idle
  /\ now < MaxClock
  /\ now' = now + 1
  /\ UNCHANGED <<users, posts, comments, response, inflight>>

CreateUser ==
  \E email \in Emails, username \in Usernames, rnd \in Draws :
    LET req == Request("createUser", 0, 0, 0, email, username, "", "", "")
    IN  OnUsers(req, createUser(users, req, rnd))

GetUsers ==
  \E includeDeleted \in Flags, onlyDeleted \in Flags :
    LET req == Request("getUsers", 0, 0, 0, "", "", "", includeDeleted, onlyDeleted)
    IN  OnUsers(req, getUsers(users, req))

GetUser ==
  \E id \in UserIds \ {0} :
    LET req == Request("getUser", id, 0, 0, "", "", "", "", "")
    IN  OnUsers(req, getUser(users, req))

UpdateUser ==
  \E id \in UserIds \ {0}, email \in Emails, username \in Usernames, rnd \in Draws :
    LET req == Request("updateUser", id, 0, 0, email, username, "", "", "")
    IN  OnUsers(req, updateUser(users, req, rnd))

\* DeleteUser that soft-deletes the active posts of the user with it.
DeleteUserCascade ==
  \E id \in UserIds \ {0} :
    LET req == Request("deleteUser", id, 0, 0, "", "", "", "", "")
        out == deleteUser(users, req, now)
        Cascade(p) == IF out.status = 200 /\ p.userId = id /\ p.deletedAt = NULL
                      THEN [p EXCEPT !.deletedAt = now] ELSE p
    IN  /\ Idle
        /\ Room(out.table, posts, comments)
        /\ users' = out.table
        /\ posts' = [k \in 1..Len(posts) |-> Cascade(posts[k])]
        /\ response' = Answer(req, out)
        /\ UNCHANGED <<comments, now, inflight>>

DeleteUser ==
  \E id \in UserIds \ {0} :
    LET req == Request("deleteUser", id, 0, 0, "", "", "", "", "")
    IN  OnUsers(req, deleteUser(users, req, now))

CreatePost ==
  \E content \in Contents, userId \in UserIds :
    LET req == Request("createPost", 0, 0, userId, "", "", content, "", "")
    IN  OnPosts(req, createPost(posts, users, req))

GetPosts ==
  \E includeDeleted \in Flags, onlyDeleted \in Flags :
    LET req == Request("getPosts", 0, 0, 0, "", "", "", includeDeleted, onlyDeleted)
    IN  OnPosts(req, getPosts(posts, req))

GetPost ==
  \E id \in PostIds :
    LET req == Request("getPost", id, 0, 0, "", "", "", "", "")
    IN  OnPosts(req, getPost(posts, req))

UpdatePost ==
  \E id \in PostIds, content \in Contents, userId \in UserIds :
    LET req == Request("updatePost", id, 0, userId, "", "", content, "", "")
    IN  OnPosts(req, updatePost(posts, req))

DeletePost ==
  \E id \in PostIds, userId \in UserIds :
    LET req == Request("deletePost", id, 0, userId, "", "", "", "", "")
    IN  OnPosts(req, deletePost(posts, req, now))

CreateComment ==
  \E postId \in PostIds, content \in Contents, userId \in UserIds :
    LET req == Request("createComment", 0, postId, userId, "", "", content, "", "")
    IN  OnComments(req, createComment(comments, posts, users, req))

GetComments ==
  \E postId \in PostIds, includeDeleted \in Flags, onlyDeleted \in Flags :
    LET req == Request("getComments", 0, postId, 0, "", "", "", includeDeleted, onlyDeleted)
    IN  OnComments(req, getComments(comments, req))

GetComment ==
  \E postId \in PostIds, id \in CommentIds :
    LET req == Request("getComment", id, postId, 0, "", "", "", "", "")
    IN  OnComments(req, getComment(comments, users, req))

\* UpdateComment that looks for the active post of the path first, as
\* createComment does.
UpdateCommentActivePost ==
  \E postId \in PostIds, id \in CommentIds, content \in Contents, userId \in UserIds :
    LET req == Request("updateComment", id, postId, userId, "", "", content, "", "")
    IN  OnComments(req, IF findUniqueActiveById(posts, postId) = <<>>
                        THEN Outcome(comments, FALSE, 404, "Post not found", <<>>)
                        ELSE updateComment(comments, req))

UpdateComment ==
  \E postId \in PostIds, id \in CommentIds, content \in Contents, userId \in UserIds :
    LET req == Request("updateComment", id, postId, userId, "", "", content, "", "")
    IN  OnComments(req, updateComment(comments, req))

DeleteComment ==
  \E postId \in PostIds, id \in CommentIds, userId \in UserIds :
    LET req == Request("deleteComment", id, postId, userId, "", "", "", "", "")
    IN  OnComments(req, deleteComment(comments, req, now))

Init ==
  /\ users = <<>>
  /\ posts = <<>>
  /\ comments = <<>>
  /\ now = 1
  /\ response = NoResponse
  /\ inflight = EmptyBag

Next ==
  \/ CreateUser \/ GetUsers \/ GetUser \/ UpdateUser \/ DeleteUser
  \/ CreatePost \/ GetPosts \/ GetPost \/ UpdatePost \/ DeletePost
  \/ CreateComment \/ GetComments \/ GetComment \/ UpdateComment \/ DeleteComment
  \/ Deliver \/ Tick

Spec == Init /\ [][Next]_vars

(***************************************************************************)
(* The user handlers, one store round trip at a time, for several clients. *)
(* Between two awaits of a request the other requests run.                 *)
(***************************************************************************)
\* The requests that wait at the await pc.
Waiting(pc) == {slot \in BagToSet(inflight) : slot.pc = pc}

\* A client may send one more request.
Free == BagCardinality(inflight) < MaxClients

One(slot) == SetToBag({slot})

\* A new request reaches its first await.
Start(slot) ==
  /\ inflight' = inflight (+) One(slot)
  /\ UNCHANGED <<users, posts, comments, now, response>>

\* A request goes from one await to the next.
Await(slot, next) ==
  /\ inflight' = (inflight (-) One(slot)) (+) One(next)
  /\ UNCHANGED <<users, posts, comments, now, response>>

\* A new request answers before any await.
Reject(req, out) ==
  /\ response' = Answer(req, out)
  /\ UNCHANGED <<users, posts, comments, now, inflight>>

\* A waiting request answers.
Finish(slot, out) ==
  /\ Room(out.table, posts, comments)
  /\ users' = out.table
  /\ response' = Answer(slot.req, out)
  /\ inflight' = inflight (-) One(slot)
  /\ UNCHANGED <<posts, comments, now>>

\* createUser up to the answer of prisma.user.findFirst.
CreateUserFind ==
  \E email \in Emails, username \in Usernames :
    LET req == Request("createUser", 0, 0, 0, email, username, "", "", "")
    IN  /\ Idle
        /\ Free
        /\ IF createUserInvalid(req)
           THEN Reject(req, createUser(users, req, CHOOSE rnd \in Draws : TRUE))
           ELSE Start(Slot("createUser", req,
                           userFindFirstActive(users, email, username), <<>>))

\* createUser from the answer of findFirst to the end.
CreateUserCreate ==
  \E slot \in Waiting("createUser"), rnd \in Draws :
    /\ Idle
    /\ Finish(slot, createUserWrite(users, slot.req, slot.found, rnd))

\* updateUser up to the answer of the first prisma.user.findUnique.
UpdateUserFind ==
  \E id \in UserIds \ {0}, email \in Emails, username \in Usernames :
    LET req == Request("updateUser", id, 0, 0, email, username, "", "", "")
        user == findUniqueById(users, id)
    IN  /\ Idle
        /\ Free
        /\ IF IsDeleted(user)
           THEN Reject(req, updateUser(users, req, CHOOSE rnd \in Draws : TRUE))
           ELSE Start(Slot(IF emailChanges(req, user[1]) THEN "updateUser:email"
                           ELSE "updateUser:update", req, user, <<>>))

\* updateUser: the answer of findUnique({ where: { email } }).
UpdateUserFindEmail ==
  \E slot \in Waiting("updateUser:email") :
    /\ Idle
    /\ Await(slot, Slot("updateUser:update", slot.req, slot.found,
                        updateUserLookup(users, slot.req, slot.found[1])))

\* updateUser from the answer of its last read to the end.
UpdateUserUpdate ==
  \E slot \in Waiting("updateUser:update"), rnd \in Draws :
    /\ Idle
    /\ Finish(slot, updateUserWrite(users, slot.req, slot.found[1], slot.existing, rnd))

\* deleteUser up to the answer of prisma.user.findUnique.
DeleteUserFind ==
  \E id \in UserIds \ {0} :
    LET req == Request("deleteUser", id, 0, 0, "", "", "", "", "")
    IN  /\ Idle
        /\ Free
        /\ Start(Slot("deleteUser", req, findUniqueById(users, id), <<>>))

\* deleteUser from the answer of findUnique to the end.
DeleteUserUpdate ==
  \E slot \in Waiting("deleteUser") :
    /\ Idle
    /\ Finish(slot, deleteUserWrite(users, slot.req, slot.found, now))

NextConc ==
  \/ CreateUserFind \/ CreateUserCreate
  \/ UpdateUserFind \/ UpdateUserFindEmail \/ UpdateUserUpdate
  \/ DeleteUserFind \/ DeleteUserUpdate
  \/ Deliver

SpecConc == Init /\ [][NextConc]_vars

(***************************************************************************)
(* The post and comment handlers one store round trip at a time, with the  *)
(* createUser and deleteUser of the clients that own the rows.  A handler  *)
(* answers 400, 403 and 404 as soon as the read that decides it returns.   *)
(***************************************************************************)
\* A waiting request answers after its write to the posts.
FinishPosts(slot, out) ==
  /\ Room(users, out.table, comments)
  /\ posts' = out.table
  /\ response' = Answer(slot.req, out)
  /\ inflight' = inflight (-) One(slot)
  /\ UNCHANGED <<users, comments, now>>

\* A waiting request answers after its write to the comments.
FinishComments(slot, out) ==
  /\ Room(users, posts, out.table)
  /\ comments' = out.table
  /\ response' = Answer(slot.req, out)
  /\ inflight' = inflight (-) One(slot)
  /\ UNCHANGED <<users, posts, now>>

\* createPost up to the answer of prisma.user.findUnique.
CreatePostFind ==
  \E content \in Contents, userId \in UserIds :
    LET req == Request("createPost", 0, 0, userId, "", "", content, "", "")
        user == findUniqueActiveById(users, userId)
    IN  /\ Idle
        /\ Free
        /\ IF contentInvalid(req) \/ user = <<>>
           THEN Reject(req, createPost(posts, users, req))
           ELSE Start(Slot("createPost", req, user, <<>>))

\* createPost from the answer of findUnique to the end.
CreatePostCreate ==
  \E slot \in Waiting("createPost") :
    /\ Idle
    /\ FinishPosts(slot, createPostWrite(posts, slot.req, slot.found))

\* updatePost up to the answer of prisma.post.findUnique.
UpdatePostFind ==
  \E id \in PostIds, content \in Contents, userId \in UserIds :
    LET req == Request("updatePost", id, 0, userId, "", "", content, "", "")
        post == findUniqueById(posts, id)
    IN  /\ Idle
        /\ Free
        /\ IF updatePostWrite(posts, req, post).wrote
           THEN Start(Slot("updatePost", req, post, <<>>))
           ELSE Reject(req, updatePost(posts, req))

\* updatePost from the answer of findUnique to the end.
UpdatePostUpdate ==
  \E slot \in Waiting("updatePost") :
    /\ Idle
    /\ FinishPosts(slot, updatePostWrite(posts, slot.req, slot.found))

\* deletePost up to the answer of prisma.post.findUnique.
DeletePostFind ==
  \E id \in PostIds, userId \in UserIds :
    LET req == Request("deletePost", id, 0, userId, "", "", "", "", "")
        post == findUniqueById(posts, id)
    IN  /\ Idle
        /\ Free
        /\ IF deletePostWrite(posts, req, post, now).wrote
           THEN Start(Slot("deletePost", req, post, <<>>))
           ELSE Reject(req, deletePost(posts, req, now))

\* deletePost from the answer of findUnique to the end.
DeletePostUpdate ==
  \E slot \in Waiting("deletePost") :
    /\ Idle
    /\ FinishPosts(slot, deletePostWrite(posts, slot.req, slot.found, now))

\* createComment up to the answer of prisma.post.findUnique.
CreateCommentFindPost ==
  \E postId \in PostIds, content \in Contents, userId \in UserIds :
    LET req == Request("createComment", 0, postId, userId, "", "", content, "", "")
        post == findUniqueActiveById(posts, postId)
    IN  /\ Idle
        /\ Free
        /\ IF contentInvalid(req) \/ post = <<>>
           THEN Reject(req, createComment(comments, posts, users, req))
           ELSE Start(Slot("createComment:user", req, post, <<>>))

\* createComment: the answer of prisma.user.findUnique.
CreateCommentFindUser ==
  \E slot \in Waiting("createComment:user") :
    LET user == findUniqueActiveById(users, slot.req.userId)
    IN  /\ Idle
        /\ IF user = <<>>
           THEN FinishComments(slot, createCommentWrite(comments, slot.req,
                                                        slot.found, user))
           ELSE Await(slot, Slot("createComment:create", slot.req, slot.found, user))

\* createComment from the answer of its last read to the end.
CreateCommentCreate ==
  \E slot \in Waiting("createComment:create") :
    /\ Idle
    /\ FinishComments(slot, createCommentWrite(comments, slot.req, slot.found,
                                               slot.existing))

\* updateComment up to the answer of prisma.comment.findUnique.
UpdateCommentFind ==
  \E postId \in PostIds, id \in CommentIds, content \in Contents, userId \in UserIds :
    LET req == Request("updateComment", id, postId, userId, "", "", content, "", "")
        comment == commentFindUnique(comments, id, postId)
    IN  /\ Idle
        /\ Free
        /\ IF updateCommentWrite(comments, req, comment).wrote
           THEN Start(Slot("updateComment", req, comment, <<>>))
           ELSE Reject(req, updateComment(comments, req))

\* updateComment from the answer of findUnique to the end.
UpdateCommentUpdate ==
  \E slot \in Waiting("updateComment") :
    /\ Idle
    /\ FinishComments(slot, updateCommentWrite(comments, slot.req, slot.found))

\* deleteComment up to the answer of prisma.comment.findUnique.
DeleteCommentFind ==
  \E postId \in PostIds, id \in CommentIds, userId \in UserIds :
    LET req == Request("deleteComment", id, postId, userId, "", "", "", "", "")
        comment == commentFindUnique(comments, id, postId)
    IN  /\ Idle
        /\ Free
        /\ IF deleteCommentWrite(comments, req, comment, now).wrote
           THEN Start(Slot("deleteComment", req, comment, <<>>))
           ELSE Reject(req, deleteComment(comments, req, now))

\* deleteComment from the answer of findUnique to the end.
DeleteCommentUpdate ==
  \E slot \in Waiting("deleteComment") :
    /\ Idle
    /\ FinishComments(slot, deleteCommentWrite(comments, slot.req, slot.found, now))

NextRace ==
  \/ CreateUserFind \/ CreateUserCreate
  \/ DeleteUserFind \/ DeleteUserUpdate
  \/ CreatePostFind \/ CreatePostCreate
  \/ UpdatePostFind \/ UpdatePostUpdate
  \/ DeletePostFind \/ DeletePostUpdate
  \/ CreateCommentFindPost \/ CreateCommentFindUser \/ CreateCommentCreate
  \/ UpdateCommentFind \/ UpdateCommentUpdate
  \/ DeleteCommentFind \/ DeleteCommentUpdate
  \/ Deliver

SpecRace == Init /\ [][NextRace]_vars

(***************************************************************************)
(* The claims.  A step of Spec that answers a request leaves the request   *)
(* and its answer in response': the tables before it are the unprimed      *)
(* ones, the tables after it the primed ones.                              *)
(***************************************************************************)
Active(table) == {r \in Rows(table) : r.deletedAt = NULL}

Deleted(table) == {r \in Rows(table) : r.deletedAt # NULL}

\* The step answers a request of one of ops.
Answers(ops) == response'.req.op \in ops

\* The answer of the state is to a request of one of ops.
Answered(ops) == response.req.op \in ops

\* Row r of the table before the step differs in the table after it.
Changed(table, tableAfter, r) ==
  \E k \in 1..Len(table) : table[k] = r /\ tableAfter[k] # r

\* On posts: a step changes a post only as an updatePost or deletePost
\* of that post that carries the userId of its owner; updatePost and
\* deletePost of an active post with another userId answer 403 and change
\* no post.
C1_PostOwnerStep ==
  /\ Len(posts') >= Len(posts)
  /\ \A p \in Rows(posts) :
       /\ Changed(posts, posts', p) =>
            /\ Answers({"updatePost", "deletePost"})
            /\ response'.req.id = p.id
            /\ response'.req.userId = p.userId
       /\ ( /\ Answers({"updatePost", "deletePost"})
            /\ response'.req.id = p.id
            /\ p.deletedAt = NULL
            /\ response'.req.userId # p.userId )
          => response'.status = 403 /\ posts' = posts

\* On comments: the same for updateComment and deleteComment, the
\* request naming the comment by its id under its post.
C1_CommentOwnerStep ==
  /\ Len(comments') >= Len(comments)
  /\ \A c \in Rows(comments) :
       /\ Changed(comments, comments', c) =>
            /\ Answers({"updateComment", "deleteComment"})
            /\ response'.req.id = c.id
            /\ response'.req.userId = c.userId
       /\ ( /\ Answers({"updateComment", "deleteComment"})
            /\ response'.req.id = c.id
            /\ response'.req.postId = c.postId
            /\ c.deletedAt = NULL
            /\ response'.req.userId # c.userId )
          => response'.status = 403 /\ comments' = comments

\* C1: posts and comments are changed by their owner's update and delete
\* requests only, and another userId is answered 403 with nothing changed.
C1_OwnerOnly == [][C1_PostOwnerStep /\ C1_CommentOwnerStep]_vars

\* C1 witness: an active comment whose update or delete was asked with
\* another userId and answered 403.
C1_Witness ==
  /\ Answered({"updateComment", "deleteComment"})
  /\ response.status = 403
  /\ \E c \in Active(comments) :
       /\ c.id = response.req.id
       /\ c.postId = response.req.postId
       /\ c.userId # response.req.userId

\* The ids of the rows of an answer.
DataIds(out) == {out.data[k].id : k \in 1..Len(out.data)}

Get(op, id, postId) == Request(op, id, postId, 0, "", "", "", "", "")

List(op, postId, includeDeleted, onlyDeleted) ==
  Request(op, 0, postId, 0, "", "", "", includeDeleted, onlyDeleted)

\* get(id) answers 404, list(onlyDeleted) holds id and list() does not, for
\* the answers get, deleted and default of the three requests.
GoneAfterDelete(id, get, deleted, default) ==
  /\ get.status = 404
  /\ deleted.status = 200 /\ id \in DataIds(deleted)
  /\ default.status = 200 /\ id \notin DataIds(default)

\* C2: in the state a successful deleteUser, deletePost or deleteComment of
\* id leaves, the get of id answers 404, the list with onlyDeleted=true
\* holds id and the default list does not.
C2_DeleteThenGet ==
  /\ (Answered({"deleteUser"}) /\ response.status = 200) =>
       GoneAfterDelete(response.req.id,
                       getUser(users, Get("getUser", response.req.id, 0)),
                       getUsers(users, List("getUsers", 0, "", "true")),
                       getUsers(users, List("getUsers", 0, "", "")))
  /\ (Answered({"deletePost"}) /\ response.status = 200) =>
       GoneAfterDelete(response.req.id,
                       getPost(posts, Get("getPost", response.req.id, 0)),
                       getPosts(posts, List("getPosts", 0, "", "true")),
                       getPosts(posts, List("getPosts", 0, "", "")))
  /\ (Answered({"deleteComment"}) /\ response.status = 200) =>
       GoneAfterDelete(response.req.id,
                       getComment(comments, users,
                                  Get("getComment", response.req.id, response.req.postId)),
                       getComments(comments,
                                   List("getComments", response.req.postId, "", "true")),
                       getComments(comments,
                                   List("getComments", response.req.postId, "", "")))

\* C2 witness: a comment has just been soft-deleted by its owner.
C2_Witness ==
  /\ Answered({"deleteComment"})
  /\ response.status = 200
  /\ \E c \in Deleted(comments) : c.id = response.req.id

\* The rows of an answer are exactly the rows of the set, each once.
Exactly(out, rows) ==
  /\ out.status = 200
  /\ {out.data[k] : k \in 1..Len(out.data)} = rows
  /\ Len(out.data) = Cardinality(rows)

\* The rows a list must answer under the two query flags.
Listed(rows, includeDeleted, onlyDeleted) ==
  IF onlyDeleted = "true" THEN {r \in rows : r.deletedAt # NULL}
  ELSE IF includeDeleted = "true" THEN rows
  ELSE {r \in rows : r.deletedAt = NULL}

\* C3: in every state each list answers the active rows by default, every
\* row with includeDeleted=true, and the soft-deleted rows with
\* onlyDeleted=true, whatever includeDeleted says (the comments: those of
\* the post of the path).
C3_ListFilters ==
  \A includeDeleted \in Flags, onlyDeleted \in Flags :
    /\ Exactly(getUsers(users, List("getUsers", 0, includeDeleted, onlyDeleted)),
               Listed(Rows(users), includeDeleted, onlyDeleted))
    /\ Exactly(getPosts(posts, List("getPosts", 0, includeDeleted, onlyDeleted)),
               Listed(Rows(posts), includeDeleted, onlyDeleted))
    /\ \A postId \in PostIds :
         Exactly(getComments(comments,
                             List("getComments", postId, includeDeleted, onlyDeleted)),
                 Listed({c \in Rows(comments) : c.postId = postId},
                        includeDeleted, onlyDeleted))

\* C3 witness: with an active and a soft-deleted user in the store, the
\* list asked with both flags true has answered the soft-deleted one only.
C3_Witness ==
  /\ Answered({"getUsers"})
  /\ response.req.includeDeleted = "true"
  /\ response.req.onlyDeleted = "true"
  /\ Active(users) # {}
  /\ Deleted(users) # {}
  /\ {response.data[k] : k \in 1..Len(response.data)} = Deleted(users)

\* The active users that hold the email or the username.
ActiveHolders(U, email, username) ==
  {u \in Active(U) : u.email = email \/ u.username = username}

\* A createUser with an email and a username, one of them held by an
\* active user, answers 409 and leaves the users as they were.
C4_ConflictStep ==
  ( /\ Answers({"createUser"})
    /\ response'.req.email # ""
    /\ response'.req.username # ""
    /\ ActiveHolders(users, response'.req.email, response'.req.username) # {} )
  => response'.status = 409 /\ users' = users

\* C4: createUser answers 409 whenever an active user holds the email or
\* the username of the request, and then creates and modifies no user row.
C4_CreateConflict == [][C4_ConflictStep]_vars

\* C4 witness: a create with the email of an active user and a username
\* that no user holds has been answered 409.
C4_Witness ==
  /\ Answered({"createUser"})
  /\ response.status = 409
  /\ \E u \in Active(users) : u.email = response.req.email
  /\ \A u \in Rows(users) : u.username # response.req.username

\* The email matches local@domain.tld, as generateRandomAvatar tests it.
WellFormed(email) == emailRegexTest(trim(email))

\* part occurs in text.
Embeds(text, part) ==
  \E k \in 1..(Len(text) - Len(part) + 1) : SubSeq(text, k, k + Len(part) - 1) = part

\* The step appends one active user row, which it answers, made of the
\* email and the username of the request and of an avatarTag that embeds the
\* avatarUrl of the row and the username.
CreatesUser ==
  /\ response'.status = 201
  /\ Len(users') = Len(users) + 1
  /\ SubSeq(users', 1, Len(users)) = users
  /\ response'.data = <<users'[Len(users')]>>
  /\ LET user == users'[Len(users')]
     IN  /\ user.deletedAt = NULL
         /\ user.email = response'.req.email
         /\ user.username = response'.req.username
         /\ Embeds(user.avatarTag, user.avatarUrl)
         /\ Embeds(user.avatarTag, user.username)

\* A createUser with a well-formed email and a username, neither held by
\* an active user, creates the user.
C5_CreateStep ==
  ( /\ Answers({"createUser"})
    /\ WellFormed(response'.req.email)
    /\ response'.req.username # ""
    /\ ActiveHolders(users, response'.req.email, response'.req.username) = {} )
  => CreatesUser

\* C5: createUser with a well-formed email and a username, neither held by
\* an active user, answers 201 and persists the new active user, whose
\* avatarTag embeds its avatarUrl and the username.
C5_CreateSucceeds == [][C5_CreateStep]_vars

\* C6: no two user rows, active or soft-deleted, share an email or a
\* username, however the createUser, updateUser and deleteUser requests of
\* the clients interleave; so of two concurrent creates with one email or
\* one username at most one persists its row.
C6_UniqueUsers ==
  \A i \in 1..Len(users), j \in 1..Len(users) :
    i # j => /\ users[i].email # users[j].email
             /\ users[i].username # users[j].username

\* C6 witness: a createUser that found no active holder of its email when
\* it looked has met, at its write, the row another request persisted with
\* that email meanwhile, and has failed.
C6_Witness ==
  /\ Answered({"createUser"})
  /\ response.status = 500
  /\ \E u \in Active(users) : u.email = response.req.email

\* The answers of a createComment that carries content and userId.
C7_CreateCommentStep ==
  ( /\ Answers({"createComment"})
    /\ response'.req.content # ""
    /\ response'.req.userId # 0 )
  => LET postActive == \E p \in Active(posts) : p.id = response'.req.postId
         userActive == \E u \in Active(users) : u.id = response'.req.userId
     IN  /\ ~postActive =>
              /\ response'.status = 404
              /\ response'.message = "Post not found"
              /\ comments' = comments
         /\ (postActive /\ ~userActive) =>
              /\ response'.status = 404
              /\ response'.message = "User not found"
              /\ comments' = comments
         /\ comments' # comments => postActive /\ userActive

\* C7: createComment with content and userId persists a comment only under
\* an active post and for an active user; it answers 404 "Post not found"
\* when the post is missing or soft-deleted, whatever the user is, 404
\* "User not found" when the post is active and the user missing or
\* soft-deleted, and then leaves the comments as they were.
C7_CreateComment == [][C7_CreateCommentStep]_vars

\* C7 witness: a comment asked under a soft-deleted post for a soft-deleted
\* user has been answered 404 "Post not found".
C7_Witness ==
  /\ Answered({"createComment"})
  /\ response.status = 404
  /\ response.message = "Post not found"
  /\ \E p \in Deleted(posts) : p.id = response.req.postId
  /\ \E u \in Deleted(users) : u.id = response.req.userId
  /\ response.req.content # ""

\* The answers of a createPost.
C8_CreatePostStep ==
  Answers({"createPost"}) =>
    LET req == response'.req
        userActive == \E u \in Active(users) : u.id = req.userId
    IN  IF req.content = "" \/ req.userId = 0
        THEN response'.status = 400 /\ posts' = posts
        ELSE IF ~userActive
        THEN response'.status = 404 /\ posts' = posts
        ELSE /\ response'.status = 201
             /\ Len(posts') = Len(posts) + 1
             /\ SubSeq(posts', 1, Len(posts)) = posts
             /\ response'.data = <<posts'[Len(posts')]>>
             /\ posts'[Len(posts')].userId = req.userId
             /\ posts'[Len(posts')].content = req.content
             /\ posts'[Len(posts')].deletedAt = NULL

\* C8: createPost answers 400 without content or userId, else 404 when no
\* active user has the userId, and creates no post in both cases; else it
\* answers 201 and appends an active post of that userId and content.
C8_CreatePost == [][C8_CreatePostStep]_vars

\* C8 witness: a post asked with content for a soft-deleted user has been
\* answered 404.
C8_Witness ==
  /\ Answered({"createPost"})
  /\ response.status = 404
  /\ response.req.content # ""
  /\ \E u \in Deleted(users) : u.id = response.req.userId

\* The step answers an updateUser of the active user u that carries an
\* email other than the one of u.
ChangesEmailOf(u) ==
  /\ Answers({"updateUser"})
  /\ response'.req.id = u.id
  /\ response'.req.email # ""
  /\ response'.req.email # u.email

\* Such an updateUser answers 409 exactly when another active user holds
\* the email.
C9_ActiveHolderStep ==
  \A u \in Active(users) :
    ChangesEmailOf(u) =>
      ( response'.status = 409
        <=> \E v \in Active(users) : v.id # u.id /\ v.email = response'.req.email )

\* C9 as claimed: updateUser of an active user with a new email answers 409
\* exactly when another active user holds that email.
C9_ConflictWithActiveOnly == [][C9_ActiveHolderStep]_vars

\* The answers of such an updateUser, by the rows that hold the email.
C9_AnyHolderStep ==
  \A u \in Active(users) :
    ChangesEmailOf(u) =>
      LET req == response'.req
          held == \E v \in Rows(users) : v.id # u.id /\ v.email = req.email
          username == OrElse(req.username, u.username)
          taken == \E v \in Rows(users) : v.id # u.id /\ v.username = username
          after == findUniqueById(users', u.id)[1]
      IN  /\ response'.status = 409 <=> held
          /\ held => users' = users
          /\ (~held /\ WellFormed(req.email) /\ ~taken) => response'.status = 200
          /\ response'.status = 200 =>
               /\ response'.data = <<after>>
               /\ after.email = req.email
               /\ after.username = username
               /\ \E rnd \in Draws :
                    after.avatarUrl = generateRandomAvatar(req.email, rnd).avatarUrl
               /\ Embeds(after.avatarTag, after.avatarUrl)
               /\ Embeds(after.avatarTag, username)

\* C9 as amended: updateUser of an active user with a new email answers
\* 409, and changes nothing, exactly when another user row, active or
\* soft-deleted, holds the email.  Otherwise it goes on to the new avatar and
\* the write: it answers 200 when the email is well-formed and no other row
\* holds the username to store, and the row it answers then holds the new
\* email, an avatarUrl generated from it and an avatarTag that embeds this
\* avatarUrl and the username stored.
C9_ConflictWithAnyRow == [][C9_AnyHolderStep]_vars

\* C9 witness: an active user asked for the email that only a soft-deleted
\* user holds, and was answered 409.
C9_Witness ==
  /\ Answered({"updateUser"})
  /\ response.status = 409
  /\ \E u \in Active(users) : u.id = response.req.id
  /\ \E v \in Deleted(users) : v.email = response.req.email
  /\ \A v \in Active(users) : v.email # response.req.email

\* A delete of a row that is soft-deleted already answers 404 and leaves
\* the table as it was.
C10_SecondDeleteStep ==
  /\ ( Answers({"deleteUser"})
       /\ \E u \in Deleted(users) : u.id = response'.req.id )
     => response'.status = 404 /\ users' = users
  /\ ( Answers({"deletePost"})
       /\ \E q \in Deleted(posts) : q.id = response'.req.id )
     => response'.status = 404 /\ posts' = posts
  /\ ( Answers({"deleteComment"})
       /\ \E c \in Deleted(comments) : c.id = response'.req.id )
     => response'.status = 404 /\ comments' = comments

\* C10: a delete of a user, post or comment that is soft-deleted already,
\* whoever asks for it (the owner of the post or comment included), answers
\* 404 and leaves the table, the deletedAt of the row with it, as it was.
C10_SecondDelete == [][C10_SecondDeleteStep]_vars

\* C10 witness: the owner of a post soft-deleted at an earlier time has
\* asked to delete it again and was answered 404.
C10_Witness ==
  /\ Answered({"deletePost"})
  /\ response.status = 404
  /\ \E q \in Deleted(posts) :
       /\ q.id = response.req.id
       /\ q.userId = response.req.userId
       /\ q.deletedAt < now

\* The ids of the rows of a table.
IdsOf(table) == {r.id : r \in Rows(table)}

\* Every row of table is a row of after, and is soft-deleted there when it is
\* soft-deleted in table.
KeepsRows(table, after) ==
  /\ IdsOf(table) \subseteq IdsOf(after)
  /\ \A r \in Deleted(table) : \A q \in Rows(after) :
       q.id = r.id => q.deletedAt # NULL

\* C11: no step removes a user, post or comment row (the set of their ids
\* only grows), and a row whose deletedAt is set keeps it set in every
\* later state.
C11_NeverRemoved ==
  [][ /\ KeepsRows(users, users')
      /\ KeepsRows(posts, posts')
      /\ KeepsRows(comments, comments') ]_vars

\* C11 witness: with a soft-deleted row in each table, the owner of the
\* soft-deleted comment has asked to update it and the row is in the store,
\* soft-deleted still.
C11_Witness ==
  /\ Answered({"updateComment"})
  /\ response.req.content # ""
  /\ Deleted(users) # {}
  /\ Deleted(posts) # {}
  /\ \E c \in Deleted(comments) :
       /\ c.id = response.req.id
       /\ c.postId = response.req.postId
       /\ c.userId = response.req.userId

\* The rows of table other than row id are those of after, in place.
OnlyRowChanged(table, after, id) ==
  /\ Len(after) = Len(table)
  /\ \A k \in 1..Len(table) : table[k].id # id => after[k] = table[k]

\* C12: a successful deleteUser changes the row of that user only and
\* leaves every post and comment, those of the user included, as it was; a
\* successful deletePost changes the row of that post only and leaves every
\* comment, those under the post included, as it was.
C12_NoCascade ==
  [][ /\ (Answers({"deleteUser"}) /\ response'.status = 200) =>
           /\ OnlyRowChanged(users, users', response'.req.id)
           /\ posts' = posts
           /\ comments' = comments
      /\ (Answers({"deletePost"}) /\ response'.status = 200) =>
           /\ OnlyRowChanged(posts, posts', response'.req.id)
           /\ users' = users
           /\ comments' = comments ]_vars

\* C12 witness: a user has just been soft-deleted who owns an active post
\* and an active comment.
C12_Witness ==
  /\ Answered({"deleteUser"})
  /\ response.status = 200
  /\ \E u \in Deleted(users) : u.id = response.req.id
  /\ \E p \in Active(posts) : p.userId = response.req.id
  /\ \E c \in Active(comments) : c.userId = response.req.id

\* C13: getComment, updateComment and deleteComment of a comment under a
\* postId other than the one stored in the comment answer 404 and change no
\* comment, and getComments answers comments of the postId of the path only.
C13_ScopedByPost ==
  [][ /\ \A c \in Rows(comments) :
           ( /\ Answers({"getComment", "updateComment", "deleteComment"})
             /\ response'.req.id = c.id
             /\ response'.req.postId # c.postId )
           => response'.status = 404 /\ comments' = comments
      /\ Answers({"getComments"}) =>
           \A k \in 1..Len(response'.data) :
             response'.data[k].postId = response'.req.postId ]_vars

\* C13 witness: the owner of an active comment has asked to update it under
\* another postId and was answered 404.
C13_Witness ==
  /\ Answered({"updateComment"})
  /\ response.status = 404
  /\ \E c \in Active(comments) :
       /\ c.id = response.req.id
       /\ c.userId = response.req.userId
       /\ c.postId # response.req.postId

\* The step answers a createUser or an updateUser that reaches the avatar
\* with an email that is not local@domain.tld: a createUser with a username
\* that no active user holds, or an updateUser of an active user.
ReachesAvatarWithInvalidEmail ==
  /\ response'.req.email # ""
  /\ ~WellFormed(response'.req.email)
  /\ \/ /\ Answers({"createUser"})
        /\ response'.req.username # ""
        /\ ActiveHolders(users, response'.req.email, response'.req.username) = {}
     \/ /\ Answers({"updateUser"})
        /\ \E u \in Active(users) : u.id = response'.req.id

\* C14: a createUser or updateUser whose email is not local@domain.tld is
\* answered 400, and creates and modifies no user row.
C14_InvalidEmail ==
  [][ReachesAvatarWithInvalidEmail => response'.status = 400 /\ users' = users]_vars

\* The row of id in the table after the step.
After(tableAfter, id) == findUniqueById(tableAfter, id)[1]

\* The step answers 200 to a request of one of ops for the row r.
Updates(ops, r) ==
  /\ Answers(ops)
  /\ response'.status = 200
  /\ response'.req.id = r.id

\* C15: a successful update leaves the fields the request omits as they
\* were: updateUser without email keeps email, avatarUrl and avatarTag, and
\* without username keeps username; updatePost and updateComment without
\* content keep content; updateUser with the email the user has keeps
\* avatarUrl and avatarTag.
C15_OmittedKept ==
  [][ /\ \A u \in Rows(users) :
           Updates({"updateUser"}, u) =>
             LET req == response'.req
                 after == After(users', u.id)
             IN  /\ req.email = "" =>
                      /\ after.email = u.email
                      /\ after.avatarUrl = u.avatarUrl
                      /\ after.avatarTag = u.avatarTag
                 /\ req.username = "" => after.username = u.username
                 /\ req.email = u.email =>
                      /\ after.avatarUrl = u.avatarUrl
                      /\ after.avatarTag = u.avatarTag
      /\ \A p \in Rows(posts) :
           (Updates({"updatePost"}, p) /\ response'.req.content = "")
           => After(posts', p.id).content = p.content
      /\ \A c \in Rows(comments) :
           (Updates({"updateComment"}, c) /\ response'.req.content = "")
           => After(comments', c.id).content = c.content ]_vars

\* C15 witness: an updateUser without email has stored another username,
\* and the row has the avatarTag it had, made for the username before.
C15_Witness ==
  /\ Answered({"updateUser"})
  /\ response.status = 200
  /\ response.req.email = ""
  /\ response.req.username # ""
  /\ \E u \in Active(users) :
       /\ u.id = response.req.id
       /\ u.username = response.req.username
       /\ Embeds(u.avatarTag, u.avatarUrl)
       /\ ~Embeds(u.avatarTag, u.username)

\* C16: updatePost and deletePost of an active post with the userId of its
\* owner, and updateComment and deleteComment of an active comment under
\* its post with the userId of its owner, answer 200 whether or not the
\* owner, or the post of the comment, is soft-deleted by then.
C16_NoRecheck ==
  [][ /\ \A p \in Active(posts) :
           ( /\ Answers({"updatePost", "deletePost"})
             /\ response'.req.id = p.id
             /\ response'.req.userId = p.userId )
           => response'.status = 200
      /\ \A c \in Active(comments) :
           ( /\ Answers({"updateComment", "deleteComment"})
             /\ response'.req.id = c.id
             /\ response'.req.postId = c.postId
             /\ response'.req.userId = c.userId )
           => response'.status = 200 ]_vars

\* C16 witness: a comment has been updated by its owner, answered 200, after
\* its owner and its post were soft-deleted.
C16_Witness ==
  /\ Answered({"updateComment"})
  /\ response.status = 200
  /\ \E c \in Active(comments) :
       /\ c.id = response.req.id
       /\ c.content = response.req.content
       /\ \E u \in Deleted(users) : u.id = c.userId
       /\ \E p \in Deleted(posts) : p.id = c.postId

\* C19: the avatarTag of every user row is the markup generateAvatarTag
\* builds from the username and the avatarUrl the row has.
C19_TagOfUsername ==
  \A u \in Rows(users) : u.avatarTag = generateAvatarTag(u.username, u.avatarUrl)

\* The owner, and for a comment the post, of each row of table is the same
\* in after.
SameParents(table, after, fields) ==
  /\ Len(after) >= Len(table)
  /\ \A k \in 1..Len(table) : \A f \in fields : after[k][f] = table[k][f]

\* C20: no step changes the userId of a post, or the userId or the postId of
\* a comment: they are those the row was created with.
C20_ParentsImmutable ==
  [][ /\ SameParents(posts, posts', {"id", "userId"})
      /\ SameParents(comments, comments', {"id", "userId", "postId"}) ]_vars

\* C20 witness: a comment has been updated by its owner under the post
\* that its owner has soft-deleted, and names its owner and its post still.
C20_Witness ==
  /\ Answered({"updateComment"})
  /\ response.status = 200
  /\ \E c \in Active(comments) :
       /\ c.id = response.req.id
       /\ c.userId = response.req.userId
       /\ c.postId = response.req.postId
       /\ c.content = response.req.content
       /\ \E p \in Deleted(posts) : p.id = c.postId /\ p.userId = c.userId

\* The step is the one in which the waiting request slot answers.
Finishing(slot) ==
  /\ inflight' = inflight (-) One(slot)
  /\ response'.req = slot.req

\* An updatePost, and an updateComment, that found its row active and its
\* userId the owner's answers 200 and writes its content in the row as the
\* row is by then, soft-deleted or not; a deletePost, and a deleteComment,
\* that found the same answers 200 and writes deletedAt.
C17_WriteAfterCheckStep ==
  /\ \A slot \in Waiting("updatePost") :
       Finishing(slot) =>
         /\ response'.status = 200
         /\ After(posts', slot.req.id) =
              [After(posts, slot.req.id) EXCEPT
                 !.content = OrElse(slot.req.content, slot.found[1].content)]
  /\ \A slot \in Waiting("updateComment") :
       Finishing(slot) =>
         /\ response'.status = 200
         /\ After(comments', slot.req.id) =
              [After(comments, slot.req.id) EXCEPT
                 !.content = OrElse(slot.req.content, slot.found[1].content)]
  /\ \A slot \in Waiting("deletePost") :
       Finishing(slot) =>
         /\ response'.status = 200
         /\ After(posts', slot.req.id) =
              [After(posts, slot.req.id) EXCEPT !.deletedAt = now]
  /\ \A slot \in Waiting("deleteComment") :
       Finishing(slot) =>
         /\ response'.status = 200
         /\ After(comments', slot.req.id) =
              [After(comments, slot.req.id) EXCEPT !.deletedAt = now]

\* C17: the check and the write of updatePost and deletePost are two store
\* round trips with nothing to tie them: each request that passed its check
\* answers 200 and writes, whatever was written to the row in between, so
\* an updatePost and a deletePost of the owner that both read the active
\* post both answer 200, and the update writes the content of a row that
\* is soft-deleted by then (and so for the comments).
C17_WriteAfterCheck == [][C17_WriteAfterCheckStep]_vars

\* C17 witness: an updatePost that read the post active has been answered
\* 200 with the row it wrote, which carries the new content and the
\* deletedAt that the deletePost of the owner wrote meanwhile.
C17_Witness ==
  /\ Answered({"updatePost"})
  /\ response.status = 200
  /\ response.req.content # ""
  /\ \E p \in Deleted(posts) :
       /\ p.id = response.req.id
       /\ p.userId = response.req.userId
       /\ p.content = response.req.content
       /\ response.data = <<p>>

\* The step appends a row to the table.
Persists(table, tableAfter) == Len(tableAfter) = Len(table) + 1

\* The row the step appends.
Persisted(tableAfter) == tableAfter[Len(tableAfter)]

\* C18: whenever a post row is persisted its userId is that of a user active
\* in the store at that moment, and whenever a comment row is persisted its
\* postId is that of a post and its userId that of a user active in the
\* store at that moment, however the requests interleave.
C18_ReferentsActive ==
  [][ /\ Persists(posts, posts') =>
           \E u \in Active(users) : u.id = Persisted(posts').userId
      /\ Persists(comments, comments') =>
           /\ \E p \in Active(posts) : p.id = Persisted(comments').postId
           /\ \E u \in Active(users) : u.id = Persisted(comments').userId ]_vars

\* found is the row of id, active, as a read of the handler answered it.
ReadActive(found, id) ==
  /\ found # <<>>
  /\ found[1].id = id
  /\ found[1].deletedAt = NULL

\* C18 as amended: whenever a post row is persisted its userId is that of a
\* user row of the store that was active when createPost read it, and
\* whenever a comment row is persisted its postId and userId are those of a
\* post row and a user row of the store that were active when createComment
\* read them; a createPost or createComment that has read its referents
\* active answers 201 and persists its row, whatever was written to the
\* referents since.
C18_ReferentsActiveWhenRead ==
  [][ /\ Persists(posts, posts') =>
           \E slot \in Waiting("createPost") :
             /\ Finishing(slot)
             /\ Persisted(posts').userId = slot.req.userId
             /\ ReadActive(slot.found, slot.req.userId)
             /\ slot.req.userId \in IdsOf(users)
      /\ Persists(comments, comments') =>
           \E slot \in Waiting("createComment:create") :
             /\ Finishing(slot)
             /\ Persisted(comments').postId = slot.req.postId
             /\ Persisted(comments').userId = slot.req.userId
             /\ ReadActive(slot.found, slot.req.postId)
             /\ ReadActive(slot.existing, slot.req.userId)
             /\ slot.req.postId \in IdsOf(posts)
             /\ slot.req.userId \in IdsOf(users)
      /\ \A slot \in Waiting("createPost") :
           Finishing(slot) => response'.status = 201 /\ Persists(posts, posts')
      /\ \A slot \in Waiting("createComment:create") :
           Finishing(slot) => response'.status = 201 /\ Persists(comments, comments')
    ]_vars

\* C18 witness: a comment has just been persisted, answered 201, under a
\* post and for a user that were soft-deleted after createComment read them.
C18_Witness ==
  /\ Answered({"createComment"})
  /\ response.status = 201
  /\ \E c \in Rows(comments) :
       /\ response.data = <<c>>
       /\ \E p \in Deleted(posts) : p.id = c.postId
       /\ \E u \in Deleted(users) : u.id = c.userId

\* The step answers an updateUser that carries a username and no email, for
\* an active user, and another user row holds the username.
TakesUsernameOfAnother ==
  /\ Answers({"updateUser"})
  /\ response'.req.email = ""
  /\ response'.req.username # ""
  /\ \E u \in Active(users) :
       /\ u.id = response'.req.id
       /\ \E v \in Rows(users) : v.id # u.id /\ v.username = response'.req.username

\* C21: an updateUser of an active user with a username that another user
\* row holds is answered with the conflict status 409, one of the statuses
\* 404 and 409 that PUT /users/:id documents, and leaves the users as they
\* were.
C21_UsernameConflict ==
  [][TakesUsernameOfAnother => response'.status = 409 /\ users' = users]_vars

====
